---- MODULE Spec2Model ----
(***************************************************************************)
(* A model of the CHIP-8 interpreter of splintah/chip-8: the Processor of  *)
(* src/lib.rs (construction, load_file, set_key, opcode, run_cycle) and    *)
(* the host loop of src/main.rs that drives it.                            *)
(*                                                                         *)
(* A Rust panic (slice or array index out of range, arithmetic overflow in *)
(* a checked build, unwrap of an Err) is modelled as a result of kind      *)
(* "panic": it is an abort, not a value returned to the caller.            *)
(***************************************************************************)
EXTENDS Integers, Sequences, FiniteSets, TLC

VARIABLES
    processor,  \* the Processor struct (lib.rs:73-112), without the rng
    host,       \* position of the driver: "start", "poll", "present", "exited", "panicked"
    closed,     \* main.rs:40, the loop flag
    result,     \* outcome of the last load_file / run_cycle call
    file,       \* history: the byte sequence handed to with_file
    prev,       \* history: the Processor as it was when the last run_cycle began
    calls,      \* history: for every 2nnn not yet returned from, where it was fetched
    cycles      \* history: number of run_cycle calls made by the bounded driver

vars == <<processor, host, closed, result, file, prev, calls, cycles>>

----------------------------------------------------------------------------
(* Program constants *)

WIDTH == 64
HEIGHT == 32
MEMORY_SIZE == 4096
STACK_SIZE == 16
ROM_START == 512

FONTSET ==
    << \hF0, \h90, \h90, \h90, \hF0,
       \h20, \h60, \h20, \h20, \h70,
       \hF0, \h10, \hF0, \h80, \hF0,
       \hF0, \h10, \hF0, \h10, \hF0,
       \h90, \h90, \hF0, \h10, \h10,
       \hF0, \h80, \hF0, \h10, \hF0,
       \hF0, \h80, \hF0, \h90, \hF0,
       \hF0, \h10, \h20, \h40, \h40,
       \hF0, \h90, \hF0, \h90, \hF0,
       \hF0, \h90, \hF0, \h10, \hF0,
       \hF0, \h90, \hF0, \h90, \h90,
       \hE0, \h90, \hE0, \h90, \hE0,
       \hF0, \h80, \h80, \h80, \hF0,
       \hE0, \h90, \h90, \h90, \hE0,
       \hF0, \h80, \hF0, \h80, \hF0,
       \hF0, \h80, \hF0, \h80, \h80 >>

\* The value a usize holds after wrapping below zero in an unchecked build.
\* It stands for usize::MAX; only its being far outside every array matters.
USIZE_MAX == 2147483647

----------------------------------------------------------------------------
(* Fixed-width arithmetic *)

RECURSIVE BitAnd(_, _)
BitAnd(a, b) ==
    IF a = 0 \/ b = 0 THEN 0
    ELSE (a % 2) * (b % 2) + 2 * BitAnd(a \div 2, b \div 2)

RECURSIVE BitOr(_, _)
BitOr(a, b) ==
    IF a = 0 THEN b
    ELSE IF b = 0 THEN a
    ELSE (IF a % 2 = 1 \/ b % 2 = 1 THEN 1 ELSE 0) + 2 * BitOr(a \div 2, b \div 2)

RECURSIVE BitXor(_, _)
BitXor(a, b) ==
    IF a = 0 THEN b
    ELSE IF b = 0 THEN a
    ELSE (((a % 2) + (b % 2)) % 2) + 2 * BitXor(a \div 2, b \div 2)

Shr(a, k) == a \div (2 ^ k)

U8(v) == v % 256
U16(v) == v % 65536

\* u8::overflowing_add / overflowing_sub: the wrapped value and the overflow flag
overflowing_add(a, b) == [value |-> U8(a + b), overflow |-> a + b > 255]
overflowing_sub(a, b) == [value |-> U8(a - b + 256), overflow |-> a < b]

HexDigit(d) == SubSeq("0123456789ABCDEF", d + 1, d + 1)

\* format!("{:X}", v)
RECURSIVE FormatX(_)
FormatX(v) == IF v < 16 THEN HexDigit(v) ELSE FormatX(v \div 16) \o HexDigit(v % 16)

\* format!("{:04X}", v) for a u16
Format04X(v) ==
    HexDigit((v \div 4096) % 16) \o HexDigit((v \div 256) % 16)
        \o HexDigit((v \div 16) % 16) \o HexDigit(v % 16)

----------------------------------------------------------------------------
(* Results *)

OkResult == [kind |-> "ok", msg |-> ""]
Ok(p) == [p |-> p, result |-> OkResult]
Err(p, msg) == [p |-> p, result |-> [kind |-> "err", msg |-> msg]]
Panic(p, msg) == [p |-> p, result |-> [kind |-> "panic", msg |-> msg]]

----------------------------------------------------------------------------
(* Processor *)

\* [false; WIDTH * HEIGHT]
BlankDisplay == [i \in 0..(WIDTH * HEIGHT - 1) |-> FALSE]

Default ==
    [ memory          |-> [a \in 0..(MEMORY_SIZE - 1) |-> IF a < 80 THEN FONTSET[a + 1] ELSE 0],
      registers       |-> [i \in 0..15 |-> 0],
      index           |-> 0,
      program_counter |-> ROM_START,
      display         |-> BlankDisplay,
      draw            |-> TRUE,
      delay_timer     |-> 0,
      sound_timer     |-> 0,
      stack           |-> [i \in 0..(STACK_SIZE - 1) |-> 0],
      stack_pointer   |-> 0,
      keypad          |-> [i \in 0..15 |-> FALSE] ]

\* dst[at .. at + n].copy_from_slice(&src[0 .. n]), src indexed from 0
copy_from_slice(dst, at, src, n) ==
    [a \in at..(at + n - 1) |-> src[a - at]] @@ dst

\* a byte sequence (indexed from 1) as a slice (indexed from 0)
Slice(f) == [i \in 0..(Len(f) - 1) |-> f[i + 1]]

\* load_file copying to one address too high
load_file_OffByOne(p, f) ==
    IF ROM_START + Len(f) > MEMORY_SIZE
    THEN Panic(p, "range end index out of range for slice")
    ELSE Ok([p EXCEPT !.memory =
                copy_from_slice(@, ROM_START + 1, Slice(f), Len(f) - 1)])

load_file(p, f) ==
    IF ROM_START + Len(f) > MEMORY_SIZE
    THEN Panic(p, "range end index out of range for slice")
    ELSE Ok([p EXCEPT !.memory = copy_from_slice(@, ROM_START, Slice(f), Len(f))])

set_key(p, key, pressed) == [p EXCEPT !.keypad[key] = pressed]

\* Processor::opcode; the caller has checked that both bytes are in memory
opcode(p) == U16(p.memory[p.program_counter] * 256
                    + p.memory[p.program_counter + 1])

OpcodeInMemory(p) == p.program_counter + 1 < MEMORY_SIZE

----------------------------------------------------------------------------
(* run_cycle: the instruction handlers.  Each takes the Processor after the  *)
(* fetch and the advance of the program counter (lib.rs:150-152).            *)

SetV(p, i, v) == [p EXCEPT !.registers[i] = v]
Skip(p) == [p EXCEPT !.program_counter = @ + 2]

UnknownOpcode(p, op) ==
    Err(p, "Unknown opcode at 0x" \o FormatX(p.program_counter)
              \o ": 0x" \o Format04X(op) \o ".")

\* Op_00E0 that leaves the flag as it was
Op_00E0_KeepsFlag(p) ==
    Ok([p EXCEPT !.display = BlankDisplay])

\* 00E0 - CLS
Op_00E0(p) ==
    Ok([p EXCEPT !.display = BlankDisplay, !.draw = TRUE])

\* 00EE - RET.  With an empty stack the subtraction overflows: a build with
\* overflow checks panics there, a build without wraps the stack pointer and
\* panics on the index that follows.
Op_00EE(p, checked) ==
    IF p.stack_pointer = 0
    THEN IF checked
         THEN Panic(p, "attempt to subtract with overflow")
         ELSE Panic([p EXCEPT !.stack_pointer = USIZE_MAX], "index out of bounds")
    ELSE LET sp == p.stack_pointer - 1
         IN  Ok([p EXCEPT !.stack_pointer = sp,
                          !.program_counter = p.stack[sp]])

\* 0nnn - SYS addr
Op_0nnn(p) == Ok(p)

\* 1nnn - JP addr
Op_1nnn(p, nnn) == Ok([p EXCEPT !.program_counter = nnn])

\* Op_2nnn that goes on counting calls when the stack is full
Op_2nnn_CountsPastFull(p, nnn) ==
    IF p.stack_pointer >= STACK_SIZE
    THEN Ok([p EXCEPT !.stack_pointer = @ + 1, !.program_counter = nnn])
    ELSE Ok([p EXCEPT !.stack[p.stack_pointer] = U16(p.program_counter),
                      !.stack_pointer = @ + 1,
                      !.program_counter = nnn])

\* Op_2nnn pushing the address of the call itself
Op_2nnn_PushesCallAddress(p, nnn) ==
    IF p.stack_pointer >= STACK_SIZE
    THEN Panic(p, "index out of bounds")
    ELSE Ok([p EXCEPT !.stack[p.stack_pointer] = U16(p.program_counter - 2),
                      !.stack_pointer = @ + 1,
                      !.program_counter = nnn])

\* 2nnn - CALL addr
Op_2nnn(p, nnn) ==
    IF p.stack_pointer >= STACK_SIZE
    THEN Panic(p, "index out of bounds")
    ELSE Ok([p EXCEPT !.stack[p.stack_pointer] = U16(p.program_counter),
                      !.stack_pointer = @ + 1,
                      !.program_counter = nnn])

\* 3xkk - SE Vx, byte
Op_3xkk(p, x, kk) == Ok(IF p.registers[x] = kk THEN Skip(p) ELSE p)

\* 4xkk - SNE Vx, byte
Op_4xkk(p, x, kk) == Ok(IF p.registers[x] # kk THEN Skip(p) ELSE p)

\* 5xy0 - SE Vx, Vy (the low nibble is not looked at)
Op_5xy0(p, x, y) == Ok(IF p.registers[x] = p.registers[y] THEN Skip(p) ELSE p)

\* 6xkk - LD Vx, byte
Op_6xkk(p, x, kk) == Ok(SetV(p, x, kk))

\* 7xkk - ADD Vx, byte
Op_7xkk(p, x, kk) == Ok(SetV(p, x, U8(p.registers[x] + kk)))

\* 8xy0 - LD Vx, Vy
Op_8xy0(p, x, y) == Ok(SetV(p, x, p.registers[y]))

\* 8xy1 - OR Vx, Vy
Op_8xy1(p, x, y) == Ok(SetV(p, x, BitOr(p.registers[x], p.registers[y])))

\* 8xy2 - AND Vx, Vy
Op_8xy2(p, x, y) == Ok(SetV(p, x, BitAnd(p.registers[x], p.registers[y])))

\* 8xy3 - XOR Vx, Vy
Op_8xy3(p, x, y) == Ok(SetV(p, x, BitXor(p.registers[x], p.registers[y])))

\* 8xy4 - ADD Vx, Vy: the flag is stored first, the sum second
Op_8xy4(p, x, y) ==
    LET r == overflowing_add(p.registers[x], p.registers[y])
        p1 == SetV(p, 15, IF r.overflow THEN 1 ELSE 0)
    IN  Ok(SetV(p1, x, r.value))

\* 8xy5 - SUB Vx, Vy
Op_8xy5(p, x, y) ==
    LET r == overflowing_sub(p.registers[x], p.registers[y])
        p1 == SetV(p, 15, IF r.overflow THEN 0 ELSE 1)
    IN  Ok(SetV(p1, x, r.value))

\* 8xy6 - SHR Vx: the shift reads Vx after the flag was stored
Op_8xy6(p, x) ==
    LET p1 == SetV(p, 15, BitAnd(p.registers[x], 1))
    IN  Ok(SetV(p1, x, Shr(p1.registers[x], 1)))

\* 8xy7 - SUBN Vx, Vy
Op_8xy7(p, x, y) ==
    LET r == overflowing_sub(p.registers[y], p.registers[x])
        p1 == SetV(p, 15, IF r.overflow THEN 0 ELSE 1)
    IN  Ok(SetV(p1, x, r.value))

\* 8xyE - SHL Vx: the shift reads Vx after the flag was stored
Op_8xyE(p, x) ==
    LET p1 == SetV(p, 15, IF BitAnd(p.registers[x], 128) = 128 THEN 1 ELSE 0)
    IN  Ok(SetV(p1, x, U8(p1.registers[x] * 2)))

\* 9xy0 - SNE Vx, Vy (the low nibble is not looked at)
Op_9xy0(p, x, y) == Ok(IF p.registers[x] # p.registers[y] THEN Skip(p) ELSE p)

\* Annn - LD I, addr
Op_Annn(p, nnn) == Ok([p EXCEPT !.index = nnn])

\* Bnnn - JP V0, addr
Op_Bnnn(p, nnn) == Ok([p EXCEPT !.program_counter = p.registers[0] + nnn])

\* Cxkk - RND Vx, byte; rnd is the byte the generator produced
Op_Cxkk(p, x, kk, rnd) == Ok(SetV(p, x, BitAnd(rnd, kk)))

\* Dxyn - DRW Vx, Vy, nibble.  As in the source, col is the sprite row and
\* row the bit within it.  The inner loop (lib.rs:334-345): bits row..7 of
\* the sprite byte pixel; the registers are read again for every set bit.
RECURSIVE DrawBits(_, _, _, _, _, _)
DrawBits(p, x, y, col, pixel, row) ==
    IF row >= 8 THEN p
    ELSE IF BitAnd(pixel, Shr(128, row)) # 0
         THEN LET x_coord == (p.registers[x] + row) % WIDTH
                  y_coord == (p.registers[y] + col) % HEIGHT
                  index == x_coord + y_coord * WIDTH
                  p1 == IF p.display[index] THEN SetV(p, 15, 1) ELSE p
              IN  DrawBits([p1 EXCEPT !.display[index] = ~@], x, y, col, pixel, row + 1)
         ELSE DrawBits(p, x, y, col, pixel, row + 1)

\* The outer loop (lib.rs:332-346): sprite rows col..n-1, each byte read
\* from memory when its row starts
RECURSIVE DrawRows(_, _, _, _, _)
DrawRows(p, x, y, n, col) ==
    IF col >= n THEN Ok(p)
    ELSE IF p.index + col >= MEMORY_SIZE
         THEN Panic(p, "index out of bounds")
         ELSE DrawRows(DrawBits(p, x, y, col, p.memory[p.index + col], 0),
                       x, y, n, col + 1)

\* Op_Dxyn that does not clear the flag before it draws
Op_Dxyn_KeepsFlag(p, x, y, n) == DrawRows([p EXCEPT !.draw = TRUE], x, y, n, 0)

Op_Dxyn(p, x, y, n) ==
    DrawRows(SetV([p EXCEPT !.draw = TRUE], 15, 0), x, y, n, 0)

\* Ex9E - SKP Vx
Op_Ex9E(p, x) ==
    IF p.registers[x] >= 16 THEN Panic(p, "index out of bounds")
    ELSE Ok(IF p.keypad[p.registers[x]] THEN Skip(p) ELSE p)

\* ExA1 - SKNP Vx
Op_ExA1(p, x) ==
    IF p.registers[x] >= 16 THEN Panic(p, "index out of bounds")
    ELSE Ok(IF ~p.keypad[p.registers[x]] THEN Skip(p) ELSE p)

\* Op_Fx07 reading the sound timer
Op_Fx07_ReadsSound(p, x) == Ok(SetV(p, x, p.sound_timer))

\* Fx07 - LD Vx, DT
Op_Fx07(p, x) == Ok(SetV(p, x, p.delay_timer))

\* a scan that starts one key too far
FirstPressed_SkipsFirst(keypad, i) ==
    LET S == { k \in (i + 1)..15 : keypad[k] }
    IN  IF S = {} THEN 16 ELSE CHOOSE k \in S : \A j \in S : k <= j

\* Fx0A - LD Vx, K.  The scan of the keypad from index i upward: the first
\* pressed key, or 16 when there is none.
RECURSIVE FirstPressed(_, _)
FirstPressed(keypad, i) ==
    IF i >= 16 THEN 16
    ELSE IF keypad[i] THEN i
    ELSE FirstPressed(keypad, i + 1)

\* Op_Fx0A without the rewind
Op_Fx0A_NoRewind(p, x) ==
    LET i == FirstPressed(p.keypad, 0)
    IN  IF i < 16 THEN Ok(SetV(p, x, i)) ELSE Ok(p)

\* Op_Fx0A rewinding although a key was found
Op_Fx0A_AlwaysRewinds(p, x) ==
    LET i == FirstPressed(p.keypad, 0)
        p1 == IF i < 16 THEN SetV(p, x, i) ELSE p
    IN  Ok([p1 EXCEPT !.program_counter = @ - 2])

Op_Fx0A(p, x) ==
    LET i == FirstPressed(p.keypad, 0)
    IN  IF i < 16
        THEN Ok(SetV(p, x, i))
        ELSE Ok([p EXCEPT !.program_counter = @ - 2])

\* Fx15 - LD DT, Vx
Op_Fx15(p, x) == Ok([p EXCEPT !.delay_timer = p.registers[x]])

\* Fx18 - LD ST, Vx
Op_Fx18(p, x) == Ok([p EXCEPT !.sound_timer = p.registers[x]])

\* Fx1E - ADD I, Vx
Op_Fx1E(p, x) == Ok([p EXCEPT !.index = @ + p.registers[x]])

\* Fx29 - LD F, Vx
Op_Fx29(p, x) == Ok([p EXCEPT !.index = 5 * p.registers[x]])

\* Fx33 - LD B, Vx: three stores, each bounds-checked when it is made
Op_Fx33(p, x) ==
    LET v == p.registers[x]
    IN  IF p.index >= MEMORY_SIZE THEN Panic(p, "index out of bounds")
        ELSE LET p1 == [p EXCEPT !.memory[p.index] = v \div 100]
             IN  IF p.index + 1 >= MEMORY_SIZE THEN Panic(p1, "index out of bounds")
                 ELSE LET p2 == [p1 EXCEPT !.memory[p.index + 1] = (v \div 10) % 10]
                      IN  IF p.index + 2 >= MEMORY_SIZE
                          THEN Panic(p2, "index out of bounds")
                          ELSE Ok([p2 EXCEPT !.memory[p.index + 2] = v % 10])

\* Op_Fx55 that stops before Vx
Op_Fx55_Exclusive(p, x) ==
    IF p.index + x + 1 > MEMORY_SIZE
    THEN Panic(p, "range end index out of range for slice")
    ELSE Ok([p EXCEPT !.memory = copy_from_slice(@, p.index, p.registers, x)])

\* Fx55 - LD [I], Vx: the slice is checked before anything is copied
Op_Fx55(p, x) ==
    IF p.index + x + 1 > MEMORY_SIZE
    THEN Panic(p, "range end index out of range for slice")
    ELSE Ok([p EXCEPT !.memory = copy_from_slice(@, p.index, p.registers, x + 1)])

\* Fx65 - LD Vx, [I]
Op_Fx65(p, x) ==
    IF p.index + x + 1 > MEMORY_SIZE
    THEN Panic(p, "range end index out of range for slice")
    ELSE Ok([p EXCEPT !.registers =
                copy_from_slice(@, 0, [i \in 0..x |-> p.memory[p.index + i]], x + 1)])

----------------------------------------------------------------------------
(* run_cycle: fetch, decode, dispatch, timers *)

FieldX(op) == Shr(BitAnd(op, \h0F00), 8)
FieldY(op) == Shr(BitAnd(op, \h00F0), 4)
FieldN(op) == BitAnd(U8(op), \h000F)
FieldKK(op) == U8(op)
FieldNNN(op) == BitAnd(op, \h0FFF)

\* the match of lib.rs:160-445 on an opcode; p has the advanced counter
Dispatch(p, op, rnd, checked) ==
    LET x == FieldX(op)
        y == FieldY(op)
        n == FieldN(op)
        kk == FieldKK(op)
        nnn == FieldNNN(op)
        top == Shr(BitAnd(op, \hF000), 12)
        low == BitAnd(op, \h00FF)
        nib == BitAnd(op, \h000F)
    IN  CASE top = 0 ->
                (CASE low = \hE0 -> Op_00E0(p)
                   [] low = \hEE -> Op_00EE(p, checked)
                   [] OTHER -> Op_0nnn(p))
          [] top = 1 -> Op_1nnn(p, nnn)
          [] top = 2 -> Op_2nnn(p, nnn)
          [] top = 3 -> Op_3xkk(p, x, kk)
          [] top = 4 -> Op_4xkk(p, x, kk)
          [] top = 5 -> Op_5xy0(p, x, y)
          [] top = 6 -> Op_6xkk(p, x, kk)
          [] top = 7 -> Op_7xkk(p, x, kk)
          [] top = 8 ->
                (CASE nib = 0 -> Op_8xy0(p, x, y)
                   [] nib = 1 -> Op_8xy1(p, x, y)
                   [] nib = 2 -> Op_8xy2(p, x, y)
                   [] nib = 3 -> Op_8xy3(p, x, y)
                   [] nib = 4 -> Op_8xy4(p, x, y)
                   [] nib = 5 -> Op_8xy5(p, x, y)
                   [] nib = 6 -> Op_8xy6(p, x)
                   [] nib = 7 -> Op_8xy7(p, x, y)
                   [] nib = 14 -> Op_8xyE(p, x)
                   [] OTHER -> UnknownOpcode(p, op))
          [] top = 9 -> Op_9xy0(p, x, y)
          [] top = 10 -> Op_Annn(p, nnn)
          [] top = 11 -> Op_Bnnn(p, nnn)
          [] top = 12 -> Op_Cxkk(p, x, kk, rnd)
          [] top = 13 -> Op_Dxyn(p, x, y, n)
          [] top = 14 ->
                (CASE low = \h9E -> Op_Ex9E(p, x)
                   [] low = \hA1 -> Op_ExA1(p, x)
                   [] OTHER -> UnknownOpcode(p, op))
          [] top = 15 ->
                (CASE low = \h07 -> Op_Fx07(p, x)
                   [] low = \h0A -> Op_Fx0A(p, x)
                   [] low = \h15 -> Op_Fx15(p, x)
                   [] low = \h18 -> Op_Fx18(p, x)
                   [] low = \h1E -> Op_Fx1E(p, x)
                   [] low = \h29 -> Op_Fx29(p, x)
                   [] low = \h33 -> Op_Fx33(p, x)
                   [] low = \h55 -> Op_Fx55(p, x)
                   [] low = \h65 -> Op_Fx65(p, x)
                   [] OTHER -> UnknownOpcode(p, op))
          [] OTHER -> UnknownOpcode(p, op)

\* TickTimers without the tests for zero
TickTimers_Unguarded(p) ==
    [p EXCEPT !.delay_timer = U8(@ + 255), !.sound_timer = U8(@ + 255)]

\* lib.rs:447-452
TickTimers(p) ==
    LET p1 == IF p.delay_timer > 0 THEN [p EXCEPT !.delay_timer = @ - 1] ELSE p
    IN  IF p1.sound_timer > 0 THEN [p1 EXCEPT !.sound_timer = @ - 1] ELSE p1

\* Processor::run_cycle.  rnd is the byte the generator yields if asked,
\* checked tells whether the build traps arithmetic overflow.
\* run_cycle that ticks the timers before it returns a decode failure
run_cycle_TicksOnFailure(p, rnd, checked) ==
    IF ~OpcodeInMemory(p) THEN Panic(p, "index out of bounds")
    ELSE LET op == opcode(p)
             r == Dispatch([p EXCEPT !.program_counter = @ + 2], op, rnd, checked)
         IN  IF r.result.kind = "panic" THEN r
             ELSE [p |-> TickTimers(r.p), result |-> r.result]

\* run_cycle whose Bnnn falls into the arm of Cxkk
run_cycle_BnnnTakesRandom(p, rnd, checked) ==
    IF ~OpcodeInMemory(p) THEN Panic(p, "index out of bounds")
    ELSE LET op == opcode(p)
             r == Dispatch([p EXCEPT !.program_counter = @ + 2],
                           IF op \div 4096 = 11 THEN op + 4096 ELSE op, rnd, checked)
         IN  IF r.result.kind = "ok" THEN Ok(TickTimers(r.p)) ELSE r

run_cycle(p, rnd, checked) ==
    IF ~OpcodeInMemory(p) THEN Panic(p, "index out of bounds")
    ELSE LET op == opcode(p)
             r == Dispatch([p EXCEPT !.program_counter = @ + 2], op, rnd, checked)
         IN  IF r.result.kind = "ok" THEN Ok(TickTimers(r.p)) ELSE r

----------------------------------------------------------------------------
(* Inputs: ROM images, keys, generator output *)

\* Number of low keypad indices the host presses, besides key 15
NumLowKeys == 1
\* Number of run_cycle calls the bounded driver makes
MaxCycles == 3
\* Number of run_cycle calls made on each image of the opcode sweep
SweepCycles == 1
\* Largest x field of the opcodes of the sweep
SweepMaxX == 0

HostKeys == (0..(NumLowKeys - 1)) \cup {15}

\* A ROM image written as a sequence of big-endian 16-bit words
Words(ws) ==
    [i \in 1..(2 * Len(ws)) |->
        IF i % 2 = 1 THEN ws[(i + 1) \div 2] \div 256 ELSE ws[i \div 2] % 256]

\* an image of n bytes: a jump to itself, zeros, and a last byte of AB
FillerRom(n) ==
    [i \in 1..n |-> IF i = 1 THEN \h12 ELSE IF i = n THEN \hAB ELSE 0]

\* wait for a key into V1 while the delay timer runs, test the key, wait again
KeyProgram == Words(<< \h6A07, \hFA15, \hF10A, \hE19E, \h1204, \hE1A1, \h1204, \h1204 >>)
\* wait for a key into VF
KeyProgramF == Words(<< \hFF0A, \h1200 >>)

KeyPrograms == { KeyProgram, KeyProgramF }

Programs ==
    KeyPrograms \cup
    {
      \* timers: set both from V0 = 3, from V1 = 0, from V3 = 255, clear, spin
      Words(<< \h6003, \hF015, \hF018, \h6100, \hF115, \h6202, \hF218,
               \h63FF, \hF315, \hF318, \hF115, \hF118, \h1218 >>),
      \* nested calls: main calls A, A calls B, both return, spin
      Words(<< \h2204, \h1202, \h2208, \h00EE, \h00EE >>),
      \* recursion sixteen deep, then sixteen returns
      Words(<< \h2204, \h1202, \h7001, \h3010, \h2204, \h00EE >>),
      \* unbounded recursion
      Words(<< \h2200 >>),
      \* return with nothing to return to
      Words(<< \h00EE >>),
      \* timer set, then an opcode of no family member
      Words(<< \h6005, \hF015, \hF018, \h8008 >>),
      Words(<< \h6101, \hE1FF >>),
      Words(<< \hF0FF >>),
      \* 5xyN and 9xyN with N # 0
      Words(<< \h5011, \h1202, \h9123, \h1206 >>),
      \* additions, also into VF
      Words(<< \h60FF, \h6101, \h8014, \h6F05, \h6003, \h8F04, \h6FFF, \h8FF4,
               \h80F4, \h1212 >>),
      \* the scenario of the specification: V0 := 5, V1 := 3, V0 += V1
      Words(<< \h6005, \h6103, \h8014, \h1206 >>),
      \* random byte
      Words(<< \hC10F, \h1202 >>),
      \* draw glyph 0 twice, clear
      Words(<< \hA000, \h603E, \h611E, \hD015, \hD015, \h00E0, \h120C >>),
      \* draw glyph 0, clear, again
      Words(<< \hD005, \h00E0, \h1200 >>),
      \* decimal digits of V0 stored at the last address of memory
      Words(<< \hAFFF, \h60FF, \hF033 >>),
      \* key test with a register that is no key index
      Words(<< \h6010, \hE09E >>),
      \* run off the end of memory
      Words(<< \h1FFE >>),
      \* the largest image that fits, and one byte more
      FillerRom(MEMORY_SIZE - ROM_START),
      FillerRom(MEMORY_SIZE - ROM_START + 1)
    }

\* one opcode at 0x200: every top nibble and every low byte, with the x
\* field (which no dispatch looks at) up to SweepMaxX
SweepOpcodes ==
    { top * 4096 + x * 256 + low : top \in 0..15, x \in 0..SweepMaxX, low \in 0..255 }
SweepRoms == { Words(<< op >>) : op \in SweepOpcodes }

ByteSamples == {0, 1, 5, 100, 200, 255}

\* Vx := a, Vy := b, then 8xy4
AddRoms ==
    { Words(<< \h6000 + 256 * x + a, \h6000 + 256 * y + b, \h8004 + 256 * x + 16 * y >>) :
        x \in 0..15, y \in 0..15, a \in ByteSamples, b \in ByteSamples }

SubSamples == {0, 1, 2, 255}

\* Vx := a, Vy := b, then 8xy5 or 8xy7
SubRoms ==
    { Words(<< \h6000 + 256 * x + a, \h6000 + 256 * y + b,
               \h8000 + 256 * x + 16 * y + low >>) :
        x \in 0..15, y \in 0..15, a \in SubSamples, b \in SubSamples, low \in {5, 7} }

ShiftSamples == {0, 1, 2, 128, 129, 255}

\* Vx := a, Vy := b, then 8xy6 or 8xyE
ShiftRoms ==
    { Words(<< \h6000 + 256 * x + a, \h6000 + 256 * y + b,
               \h8000 + 256 * x + 16 * y + low >>) :
        x \in 0..15, y \in 0..15, a \in ShiftSamples, b \in {0, 255}, low \in {6, 14} }

\* Vx := a, then Fx15 or Fx18, then Fy07
TimerRoms ==
    { Words(<< \h6000 + 256 * x + a, \hF000 + 256 * x + low, \hF007 + 256 * y >>) :
        x \in {0, 1, 15}, y \in {0, 1, 15}, a \in 0..255, low \in {\h15, \h18} }

\* Vx := a, then Ex9E or ExA1
KeyTestRoms ==
    { Words(<< \h6000 + 256 * x + a, \hE000 + 256 * x + low >>) :
        x \in {0, 15}, a \in 0..255, low \in {\h9E, \hA1} }

\* Number of run_cycle calls made on each image that copies a block
BlockCycles == 7

\* where the images that copy a block put the index register: the font, the
\* bytes after the image, the last sixteen bytes and the last two of memory
BlockAddresses == {0, \h300, MEMORY_SIZE - 16, MEMORY_SIZE - 2}

\* V0, V1, VE, VF := 0x11, 0x22, 0xEE, 0x33, I := nnn, then Fx55 and Fx65;
\* V0, VF := 0x11, 0x33, I := nnn, then Fx65 alone, also from the image
BlockRoms ==
    { Words(<< \h6011, \h6122, \h6EEE, \h6F33, \hA000 + nnn,
               \hF055 + 256 * x, \hF065 + 256 * x >>) :
        x \in 0..15, nnn \in BlockAddresses }
    \cup
    { Words(<< \h6011, \h6F33, \hA000 + nnn, \hF065 + 256 * x >>) :
        x \in 0..15, nnn \in BlockAddresses \cup {ROM_START} }

\* Number of run_cycle calls made on each image that draws
DrawCycles == 5

\* where the images that draw take their sprite from: the font, the zero
\* bytes after it, the image itself, the last six bytes of memory
SpriteAddresses == {0, 80, ROM_START, MEMORY_SIZE - 6}

\* I := nnn, Vx := a, Vy := b, then Dxyn twice
DrawRoms ==
    { Words(<< \hA000 + nnn, \h6000 + 256 * x + a, \h6000 + 256 * y + b,
               \hD000 + 256 * x + 16 * y + n, \hD000 + 256 * x + 16 * y + n >>) :
        nnn \in SpriteAddresses, x \in {0, 1, 15}, y \in {0, 1, 15},
        a \in {0, 62}, b \in {0, 30}, n \in {0, 1, 5, 15} }

\* bytes the generators of two processors may hold ready
RngSamples == {0, 1, 128, 255}

\* the generator is consulted by Cxkk only
RngOutputs(p) ==
    IF OpcodeInMemory(p) /\ opcode(p) \div 4096 = 12 THEN 0..255 ELSE {0}

\* whether the build traps overflow matters to 00EE on an empty stack only
OverflowChecks(p) ==
    IF OpcodeInMemory(p) /\ opcode(p) \div 4096 = 0 /\ opcode(p) % 256 = \hEE
        /\ p.stack_pointer = 0
    THEN BOOLEAN ELSE {TRUE}

----------------------------------------------------------------------------
(* The state machine *)

NoResult == [call |-> "none", kind |-> "none", msg |-> ""]

\* what the driver knows of a call: which call it was and how it ended
Outcome(call, r) == [call |-> call, kind |-> r.result.kind, msg |-> r.result.msg]

Init ==
    /\ processor = Default
    /\ host = "start"
    /\ closed = FALSE
    /\ result = NoResult
    /\ file = << >>
    /\ prev = Default
    /\ calls = << >>
    /\ cycles = 0

\* Processor::with_file (main.rs:13-17, lib.rs:121-125)
WithFile(roms) ==
    /\ host = "start"
    /\ \E f \in roms :
        LET r == load_file(processor, f)
        IN  /\ processor' = r.p
            /\ result' = Outcome("load_file", r)
            /\ file' = f
            /\ host' = IF r.result.kind = "ok" THEN "poll" ELSE "panicked"
    /\ UNCHANGED <<closed, prev, calls, cycles>>

\* the record of open calls after a cycle with outcome r
CallsAfter(p, r) ==
    IF r.result.kind # "ok" THEN calls
    ELSE IF opcode(p) \div 4096 = 2
         THEN Append(calls, [addr |-> p.program_counter, sp |-> p.stack_pointer])
    ELSE IF opcode(p) \div 4096 = 0 /\ opcode(p) % 256 = \hEE
         THEN SubSeq(calls, 1, Len(calls) - 1)
    ELSE calls

\* main.rs:47-66, a KeyboardInput event for a mapped key
SetKey(key, pressed) ==
    /\ host = "poll"
    /\ processor' = set_key(processor, key, pressed)
    /\ UNCHANGED <<host, closed, result, file, prev, calls, cycles>>

\* main.rs:46 and 67, CloseRequested or Escape
Close ==
    /\ host = "poll"
    /\ closed' = TRUE
    /\ UNCHANGED <<processor, host, result, file, prev, calls, cycles>>

\* main.rs:83, processor.run_cycle().unwrap()
RunCycle ==
    /\ host = "poll"
    /\ \E rnd \in RngOutputs(processor), checked \in OverflowChecks(processor) :
        LET r == run_cycle(processor, rnd, checked)
        IN  /\ processor' = r.p
            /\ result' = Outcome("run_cycle", r)
            /\ calls' = CallsAfter(processor, r)
            /\ host' = IF r.result.kind = "ok" THEN "present" ELSE "panicked"
    /\ prev' = processor
    /\ UNCHANGED <<closed, file, cycles>>

\* main.rs:85-97, present the frame if it is dirty, then test the loop flag
Present ==
    /\ host = "present"
    /\ processor' = IF processor.draw THEN [processor EXCEPT !.draw = FALSE]
                    ELSE processor
    /\ host' = IF closed THEN "exited" ELSE "poll"
    /\ UNCHANGED <<closed, result, file, prev, calls, cycles>>

\* a caller of the library that makes a bounded number of run_cycle calls
\* and looks at each Result
CallRunCycle(bound) ==
    /\ host = "poll"
    /\ cycles < bound
    /\ \E rnd \in RngOutputs(processor), checked \in OverflowChecks(processor) :
        LET r == run_cycle(processor, rnd, checked)
        IN  /\ processor' = r.p
            /\ result' = Outcome("run_cycle", r)
            /\ calls' = CallsAfter(processor, r)
            /\ host' = IF r.result.kind = "panic" THEN "panicked" ELSE "poll"
    /\ prev' = processor
    /\ cycles' = cycles + 1
    /\ UNCHANGED <<closed, file>>

Next ==
    \/ WithFile(Programs)
    \/ \E key \in HostKeys, pressed \in BOOLEAN : SetKey(key, pressed)
    \/ Close
    \/ RunCycle
    \/ Present

Spec == Init /\ [][Next]_vars

NextSweep ==
    \/ WithFile(SweepRoms)
    \/ CallRunCycle(SweepCycles)

SpecSweep == Init /\ [][NextSweep]_vars

NextAdd ==
    \/ WithFile(AddRoms)
    \/ CallRunCycle(MaxCycles)

SpecAdd == Init /\ [][NextAdd]_vars

NextSub ==
    \/ WithFile(SubRoms)
    \/ CallRunCycle(MaxCycles)

SpecSub == Init /\ [][NextSub]_vars

NextShift ==
    \/ WithFile(ShiftRoms)
    \/ CallRunCycle(MaxCycles)

SpecShift == Init /\ [][NextShift]_vars

NextTimer ==
    \/ WithFile(TimerRoms)
    \/ CallRunCycle(MaxCycles)

SpecTimer == Init /\ [][NextTimer]_vars

NextKeyTest ==
    \/ WithFile(KeyTestRoms)
    \/ \E key \in HostKeys, pressed \in BOOLEAN : SetKey(key, pressed)
    \/ CallRunCycle(MaxCycles)

SpecKeyTest == Init /\ [][NextKeyTest]_vars

NextBlock ==
    \/ WithFile(BlockRoms)
    \/ CallRunCycle(BlockCycles)

SpecBlock == Init /\ [][NextBlock]_vars

NextDraw ==
    \/ WithFile(DrawRoms)
    \/ CallRunCycle(DrawCycles)

SpecDraw == Init /\ [][NextDraw]_vars

NextLive ==
    \/ WithFile(KeyPrograms)
    \/ \E key \in HostKeys, pressed \in BOOLEAN : SetKey(key, pressed)
    \/ Close
    \/ RunCycle
    \/ Present

\* What a step of RunCycle looks like from the host's side.  RunCycle is
\* enabled exactly when host = "poll", and no other action takes the host
\* from "poll" to "present" or "panicked".
CycleRuns == host = "poll" /\ host' \in {"present", "panicked"}

\* The loop of main.rs never blocks: poll_events returns at once, so a
\* cycle that can run does run, and so does the presentation after it.
SpecLive == Init /\ [][NextLive]_vars /\ WF_host(CycleRuns) /\ WF_vars(Present)

----------------------------------------------------------------------------
(* Vocabulary of the properties *)

\* the last call was a run_cycle that fetched an opcode
Cycled == result.call = "run_cycle" /\ OpcodeInMemory(prev)
CycleOk == Cycled /\ result.kind = "ok"
CycleErr == Cycled /\ result.kind = "err"

\* the opcode the last cycle fetched, and its fields
LastOp == opcode(prev)
LastX == FieldX(LastOp)
LastY == FieldY(LastOp)

IsF(op, low) == op \div 4096 = 15 /\ op % 256 = low
IsRet(op) == op \div 4096 = 0 /\ op % 256 = \hEE
IsCall(op) == op \div 4096 = 2
Is8(op, nib) == op \div 4096 = 8 /\ op % 16 = nib

Pressed(keypad) == { k \in 0..15 : keypad[k] }
Lowest(S) == CHOOSE k \in S : \A j \in S : k <= j

\* a step of RunCycle or CallRunCycle, seen from outside
CycleStep == host = "poll" /\ (host' \in {"present", "panicked"} \/ cycles' = cycles + 1)

----------------------------------------------------------------------------
(* Timers *)

Dec(t) == IF t > 0 THEN t - 1 ELSE 0

\* C1 as stated: every successful cycle leaves each timer one less than it
\* was before the cycle, or at 0 if it was 0, and no timer is ever outside
\* 0..254.
C1_TimersDecrementFromOldValue ==
    /\ CycleOk => /\ processor.delay_timer = Dec(prev.delay_timer)
                  /\ processor.sound_timer = Dec(prev.sound_timer)
    /\ processor.delay_timer \in 0..254
    /\ processor.sound_timer \in 0..254

\* C1 amended: every successful cycle leaves each timer one less than the
\* value it held when the handler was done (the old value, but V[x] after
\* Fx15 for the delay timer and after Fx18 for the sound timer), or at 0 if
\* that value was 0; no timer is ever below 0 or at 255.
C1_TimersDecrement ==
    /\ CycleOk =>
        /\ processor.delay_timer =
              Dec(IF IsF(LastOp, \h15) THEN prev.registers[LastX] ELSE prev.delay_timer)
        /\ processor.sound_timer =
              Dec(IF IsF(LastOp, \h18) THEN prev.registers[LastX] ELSE prev.sound_timer)
    /\ processor.delay_timer \in 0..254
    /\ processor.sound_timer \in 0..254

\* a cycle that found the delay timer running and the sound timer at rest
C1_Witness ==
    /\ CycleOk
    /\ ~IsF(LastOp, \h15) /\ ~IsF(LastOp, \h18)
    /\ prev.delay_timer > 0 /\ prev.sound_timer = 0
    /\ processor.delay_timer = prev.delay_timer - 1
    /\ processor.sound_timer = 0

\* C22 as stated: after a cycle that executes Fx15 the delay timer is V[x],
\* after one that executes Fx18 the sound timer is V[x], and Fx07 sets V[x]
\* to the delay timer of the start of the cycle.
C22_TimerLoadsExact ==
    /\ (CycleOk /\ IsF(LastOp, \h15)) => processor.delay_timer = prev.registers[LastX]
    /\ (CycleOk /\ IsF(LastOp, \h18)) => processor.sound_timer = prev.registers[LastX]
    /\ (CycleOk /\ IsF(LastOp, \h07)) => processor.registers[LastX] = prev.delay_timer

\* C22: after a cycle that executes Fx15 the delay timer is V[x] less the
\* tick of that cycle, V[x] - 1 or 0 for V[x] = 0, and likewise the sound
\* timer after Fx18; Fx07 sets V[x] to the delay timer of the start of the
\* cycle, whatever V[x] in 0..255.
C22_TimerLoadsThenTicks ==
    /\ (CycleOk /\ IsF(LastOp, \h15)) =>
            /\ processor.delay_timer = Dec(prev.registers[LastX])
            /\ processor.registers = prev.registers
    /\ (CycleOk /\ IsF(LastOp, \h18)) =>
            /\ processor.sound_timer = Dec(prev.registers[LastX])
            /\ processor.registers = prev.registers
    /\ (CycleOk /\ IsF(LastOp, \h07)) =>
            processor.registers = [prev.registers EXCEPT ![LastX] = prev.delay_timer]

\* Fx07 has read 254, what the cycle of an Fx15 on 255 left in the timer
C22_Witness ==
    /\ CycleOk /\ IsF(LastOp, \h07)
    /\ prev.delay_timer = 254 /\ prev.sound_timer = 0
    /\ processor.registers[LastX] = 254
    /\ processor.delay_timer = 253

----------------------------------------------------------------------------
(* Subroutines *)

\* C2: a successful 00EE sets the program counter to the address after the
\* matching 2nnn (the innermost call not yet returned from) and the stack
\* pointer to what it was before that call; a 2nnn with at most 15 return
\* addresses on the stack succeeds.
C2_ReturnAfterCall ==
    [][ /\ (CycleStep /\ OpcodeInMemory(processor) /\ IsRet(opcode(processor))
                /\ result'.kind = "ok")
            => /\ calls # << >>
               /\ processor'.program_counter = calls[Len(calls)].addr + 2
               /\ processor'.stack_pointer = calls[Len(calls)].sp
        /\ (CycleStep /\ OpcodeInMemory(processor) /\ IsCall(opcode(processor))
                /\ processor.stack_pointer <= 15)
            => /\ result'.kind = "ok"
               /\ processor'.stack_pointer = processor.stack_pointer + 1
      ]_vars

\* a return from the sixteenth level of nesting, with fifteen calls still open
C2_Witness ==
    /\ CycleOk /\ IsRet(LastOp)
    /\ prev.stack_pointer = STACK_SIZE
    /\ Len(calls) = 15
    /\ processor.stack_pointer = 15

----------------------------------------------------------------------------
(* Waiting for a key *)

\* C3: a cycle that executes Fx0A with no key pressed leaves the program
\* counter and all registers as they were, so the next cycle fetches the
\* same Fx0A again.
C3_KeyWaitStays ==
    (CycleOk /\ IsF(LastOp, \h0A) /\ Pressed(prev.keypad) = {})
        => /\ processor.program_counter = prev.program_counter
           /\ processor.registers = prev.registers
           /\ opcode(processor) = LastOp

\* the wait has lasted several cycles: the delay timer set before it ran down
C3_Witness ==
    /\ CycleOk /\ IsF(LastOp, \h0A) /\ Pressed(prev.keypad) = {}
    /\ prev.delay_timer = 0 /\ prev.registers[10] = 7
    /\ processor.program_counter = prev.program_counter

\* C4: a cycle that executes Fx0A with a key pressed stores the lowest
\* pressed index in V[x] and advances the program counter by 2.
C4_KeyWaitLowestWins ==
    (CycleOk /\ IsF(LastOp, \h0A) /\ Pressed(prev.keypad) # {})
        => /\ processor.registers[LastX] = Lowest(Pressed(prev.keypad))
           /\ processor.program_counter = prev.program_counter + 2

\* two keys down, and the register changed to the lower one
C4_Witness ==
    /\ CycleOk /\ IsF(LastOp, \h0A)
    /\ Cardinality(Pressed(prev.keypad)) >= 2
    /\ prev.registers[LastX] # Lowest(Pressed(prev.keypad))
    /\ processor.registers[LastX] = Lowest(Pressed(prev.keypad))

KeyWaitAt(a) ==
    /\ host = "poll"
    /\ processor.program_counter = a
    /\ IsF(opcode(processor), \h0A)

\* the cycle fetched at a was an Fx0A that took a key that was pressed
KeyTakenAt(a) ==
    /\ CycleOk /\ IsF(LastOp, \h0A)
    /\ prev.program_counter = a
    /\ processor.program_counter = a + 2
    /\ processor.registers[LastX] \in Pressed(prev.keypad)

\* C5: with the host loop running (weak fairness of the cycle and of the
\* presentation), a processor waiting at an Fx0A with a key pressed gets
\* past that Fx0A with V[x] a pressed key, unless the host releases every
\* key before the cycle runs.
C5_KeyWaitEnds ==
    \A a \in {ROM_START, ROM_START + 4} :
        (KeyWaitAt(a) /\ Pressed(processor.keypad) # {})
            ~> (KeyTakenAt(a) \/ Pressed(processor.keypad) = {})

\* a key taken after the wait had lasted until the delay timer ran down
C5_Witness ==
    /\ KeyTakenAt(ROM_START + 4)
    /\ prev.delay_timer = 0

----------------------------------------------------------------------------
(* Decoding *)

\* the instruction forms of the catalogue
Catalogued(op) ==
    LET top == op \div 4096
        low == op % 256
        nib == op % 16
    IN  \/ top \in {0, 1, 2, 3, 4, 6, 7, 10, 11, 12, 13}
        \/ top \in {5, 9} /\ nib = 0
        \/ top = 8 /\ nib \in (0..7) \cup {14}
        \/ top = 14 /\ low \in {\h9E, \hA1}
        \/ top = 15 /\ low \in {\h07, \h0A, \h15, \h18, \h1E, \h29, \h33, \h55, \h65}

\* C6: run_cycle ends in a decode failure for exactly the opcodes that are
\* not of a catalogued form: for every one of them (5xyN and 9xyN with
\* N # 0 among them) and for none that is of a catalogued form.
C6_DecodeFailureIffUncatalogued ==
    Cycled => (result.kind = "err" <=> ~Catalogued(LastOp))

\* C7: the failure value of a decode failure carries the address the opcode
\* was fetched from, the program counter at the start of the cycle, and the
\* opcode read there.
C7_FailureCarriesFetchAddress ==
    CycleErr =>
        result.msg = "Unknown opcode at 0x" \o FormatX(prev.program_counter)
                        \o ": 0x" \o Format04X(LastOp) \o "."

----------------------------------------------------------------------------
(* Loading *)

\* C8: loading a ROM of more than 4096 - 512 bytes ends in an error value,
\* not in an abort, and leaves memory as it was.
C8_RomTooLargeIsAnError ==
    (result.call = "load_file" /\ Len(file) > MEMORY_SIZE - ROM_START)
        => /\ result.kind = "err"
           /\ processor.memory = Default.memory

\* the byte a load of f is to leave at address a of a fresh processor
LoadedByte(f, a) ==
    IF a < 80 THEN FONTSET[a + 1]
    ELSE IF a >= ROM_START /\ a < ROM_START + Len(f) THEN f[a - ROM_START + 1]
    ELSE 0

\* C9: loading a ROM of at most 3584 bytes into a fresh processor succeeds,
\* leaves the font in [0,80), the ROM from 512 on and 0 everywhere else, and
\* changes no field but memory.
C9_LoadFrame ==
    [][ (host = "start" /\ result'.call = "load_file"
            /\ Len(file') <= MEMORY_SIZE - ROM_START)
        => /\ result'.kind = "ok"
           /\ DOMAIN processor'.memory = 0..(MEMORY_SIZE - 1)
           /\ \A a \in 0..(MEMORY_SIZE - 1) :
                processor'.memory[a] = LoadedByte(file', a)
           /\ processor' = [processor EXCEPT !.memory = processor'.memory]
           /\ processor'.program_counter = ROM_START
      ]_vars

\* the largest ROM that fits is loaded, its last byte at the last address
C9_Witness ==
    /\ result.call = "load_file" /\ result.kind = "ok"
    /\ Len(file) = MEMORY_SIZE - ROM_START
    /\ processor.memory[MEMORY_SIZE - 1] = \hAB
    /\ processor.memory[ROM_START] = \h12

----------------------------------------------------------------------------
(* Arithmetic *)

\* C10: after 8xy4, for every x and y, V[F] is 1 if the old V[x] + V[y]
\* exceeded 255 and 0 otherwise, and for x # 0xF V[x] is the sum mod 256.
C10_AddSetsCarry ==
    (CycleOk /\ Is8(LastOp, 4)) =>
        LET sum == prev.registers[LastX] + prev.registers[LastY]
        IN  /\ processor.registers[15] = (IF sum > 255 THEN 1 ELSE 0)
            /\ LastX # 15 => processor.registers[LastX] = sum % 256

\* C11: after 8xy5, for every x and y, V[F] is 0 if the old V[x] was below
\* the old V[y] and 1 otherwise, and V[x] is the difference mod 256; after
\* 8xy7 the same with the operands swapped.
C11_SubSetsNotBorrow ==
    /\ (CycleOk /\ Is8(LastOp, 5)) =>
            /\ processor.registers[15] =
                    (IF prev.registers[LastX] < prev.registers[LastY] THEN 0 ELSE 1)
            /\ LastX # 15 => processor.registers[LastX] =
                    (prev.registers[LastX] - prev.registers[LastY]) % 256
    /\ (CycleOk /\ Is8(LastOp, 7)) =>
            /\ processor.registers[15] =
                    (IF prev.registers[LastY] < prev.registers[LastX] THEN 0 ELSE 1)
            /\ LastX # 15 => processor.registers[LastX] =
                    (prev.registers[LastY] - prev.registers[LastX]) % 256

\* C21: after 8xy6, for every x, 0xF too, V[F] is bit 0 of the old V[x], and
\* for x # 0xF V[x] is the old V[x] halved; after 8xyE V[F] is 1 if bit 7 of
\* the old V[x] was set and 0 otherwise, and for x # 0xF V[x] is twice the
\* old V[x] mod 256.
C21_ShiftSetsFlag ==
    /\ (CycleOk /\ Is8(LastOp, 6)) =>
            /\ processor.registers[15] = prev.registers[LastX] % 2
            /\ LastX # 15 => processor.registers[LastX] = prev.registers[LastX] \div 2
    /\ (CycleOk /\ Is8(LastOp, 14)) =>
            /\ processor.registers[15] = (IF prev.registers[LastX] >= 128 THEN 1 ELSE 0)
            /\ LastX # 15 => processor.registers[LastX] = (prev.registers[LastX] * 2) % 256

----------------------------------------------------------------------------
(* Drawing *)

IsDraw(op) == op \div 4096 = 13

\* the last cycle was a Dxyn that returned, and the cycle now to run is the
\* same Dxyn, with the same index register and the same V[x] and V[y]
SecondDrawDue ==
    /\ CycleOk /\ IsDraw(LastOp) /\ FieldN(LastOp) >= 1
    /\ OpcodeInMemory(processor) /\ opcode(processor) = LastOp
    /\ processor.index = prev.index
    /\ processor.memory = prev.memory
    /\ processor.registers[LastX] = prev.registers[LastX]
    /\ processor.registers[LastY] = prev.registers[LastY]

\* the sprite of the last Dxyn has a set bit
SpriteHasBit ==
    \E r \in 0..(FieldN(LastOp) - 1) : prev.memory[prev.index + r] # 0

\* C12: drawing the same sprite twice in a row with Dxyn (same index, same
\* n >= 1, same V[x] and V[y], sprite memory unchanged) restores the
\* framebuffer of before the first draw; from a blank framebuffer and a
\* sprite with a set bit, V[F] is 1 after the second draw.
C12_DoubleDrawRestores ==
    [][ (SecondDrawDue /\ cycles' = cycles + 1 /\ result'.kind = "ok")
        => /\ processor'.display = prev.display
           /\ (prev.display = BlankDisplay /\ SpriteHasBit)
                => processor'.registers[15] = 1
      ]_vars

\* C13: every cycle that executes 00E0 or Dxyn leaves the draw flag true;
\* no cycle changes the flag from true to false; the flag goes from true to
\* false only when the host has presented the frame; after 00E0 every pixel
\* of the display is false.
C13_DrawFlag ==
    [][ /\ (CycleStep /\ OpcodeInMemory(processor)
                /\ (opcode(processor) = \h00E0 \/ IsDraw(opcode(processor))))
            => processor'.draw
        /\ (CycleStep /\ processor.draw) => processor'.draw
        /\ (processor.draw /\ ~processor'.draw)
            => (host = "present" /\ host' \in {"poll", "exited"})
        /\ (CycleStep /\ OpcodeInMemory(processor) /\ opcode(processor) = \h00E0)
            => \A i \in 0..(WIDTH * HEIGHT - 1) : ~processor'.display[i]
      ]_vars

\* a 00E0 has blanked a display that showed a glyph and has set the flag
\* that the host had cleared after presenting the glyph
C13_Witness ==
    /\ CycleOk /\ LastOp = \h00E0
    /\ prev.display # BlankDisplay /\ ~prev.draw
    /\ processor.display = BlankDisplay /\ processor.draw

\* the display indices of the set bits of the sprite of opcode op, placed
\* at the V[x] and V[y] of p: bit 7 - c of row r at column X + c, line Y + r
SpritePixels(p, op) ==
    LET X == p.registers[FieldX(op)]
        Y == p.registers[FieldY(op)]
    IN  { ((X + c) % WIDTH) + ((Y + r) % HEIGHT) * WIDTH :
            <<r, c>> \in { rc \in (0..(FieldN(op) - 1)) \X (0..7) :
                (p.memory[p.index + rc[1]] \div 2^(7 - rc[2])) % 2 = 1 } }

\* C19: Dxyn toggles exactly the pixels of the set bits of its sprite placed
\* at the V[x] and V[y] held when the instruction started, for every x and y,
\* 0xF too, and leaves every other pixel as it was; every pixel it computes
\* is an index of the display.
C19_DrawTogglesSpritePixels ==
    (CycleOk /\ IsDraw(LastOp)) =>
        LET toggled == SpritePixels(prev, LastOp)
        IN  /\ toggled \subseteq 0..(WIDTH * HEIGHT - 1)
            /\ DOMAIN processor.display = 0..(WIDTH * HEIGHT - 1)
            /\ \A i \in 0..(WIDTH * HEIGHT - 1) :
                    processor.display[i] = (prev.display[i] # (i \in toggled))

\* C20: after Dxyn, V[F] is 1 if a pixel that was set before the
\* instruction is unset after it and 0 otherwise; with n = 0 or a sprite of
\* zero bytes V[F] is 0 whatever it held before.
C20_CollisionFlag ==
    (CycleOk /\ IsDraw(LastOp)) =>
        /\ processor.registers[15] =
                (IF \E i \in 0..(WIDTH * HEIGHT - 1) :
                        prev.display[i] /\ ~processor.display[i]
                 THEN 1 ELSE 0)
        /\ (\A r \in 0..(FieldN(LastOp) - 1) : prev.memory[prev.index + r] = 0)
                => processor.registers[15] = 0

\* a draw has erased a pixel and raised the flag
C20_Witness ==
    /\ CycleOk /\ IsDraw(LastOp)
    /\ prev.registers[15] = 0 /\ processor.registers[15] = 1
    /\ \E i \in 0..(WIDTH * HEIGHT - 1) : prev.display[i] /\ ~processor.display[i]

\* a draw of no rows has cleared a flag that held 62
C20_WitnessNoRows ==
    /\ CycleOk /\ IsDraw(LastOp) /\ FieldN(LastOp) = 0
    /\ prev.registers[15] = 62 /\ processor.registers[15] = 0

----------------------------------------------------------------------------
(* Stack and memory bounds *)

OutOfBounds(p) ==
    LET op == opcode(p)
    IN  \/ IsCall(op) /\ p.stack_pointer >= STACK_SIZE
        \/ IsRet(op) /\ p.stack_pointer = 0
        \/ IsDraw(op) /\ FieldN(op) >= 1 /\ p.index + FieldN(op) - 1 >= MEMORY_SIZE
        \/ IsF(op, \h33) /\ p.index + 2 >= MEMORY_SIZE
        \/ (IsF(op, \h55) \/ IsF(op, \h65)) /\ p.index + FieldX(op) >= MEMORY_SIZE

\* C15: a cycle that would push on a full stack, pop an empty stack or
\* reach past address 4095 from the index register returns a failure value;
\* it does not abort and does not wrap the stack pointer.
C15_BoundsFailuresAreTyped ==
    (Cycled /\ OutOfBounds(prev)) =>
        /\ result.kind = "err"
        /\ processor.stack_pointer \in 0..STACK_SIZE

\* the addresses the cycle started in p indexes memory with: the two bytes
\* of the opcode and, once that is fetched, the bytes at the index register
MemoryAddresses(p) ==
    {p.program_counter, p.program_counter + 1} \cup
    IF ~OpcodeInMemory(p) THEN {}
    ELSE LET op == opcode(p)
         IN  IF IsDraw(op) THEN p.index..(p.index + FieldN(op) - 1)
             ELSE IF IsF(op, \h33) THEN p.index..(p.index + 2)
             ELSE IF IsF(op, \h55) \/ IsF(op, \h65) THEN p.index..(p.index + FieldX(op))
             ELSE {}

\* C16: every address a cycle reads or writes memory at lies in 0..4095:
\* the opcode fetch at the program counter, the sprite rows of Dxyn, the
\* three bytes of Fx33, the block of Fx55 and Fx65.
C16_AddressesInMemory ==
    result.call = "run_cycle" =>
        \A a \in MemoryAddresses(prev) : a \in 0..(MEMORY_SIZE - 1)

----------------------------------------------------------------------------
(* Determinism *)

\* C17: on every opcode other than Cxkk and Fx0A, two processors that agree
\* on every field but the generator agree on every field and on the result
\* after one cycle, whatever bytes their generators hold ready.
C17_Deterministic ==
    (host = "poll" /\ OpcodeInMemory(processor)
        /\ opcode(processor) \div 4096 # 12 /\ ~IsF(opcode(processor), \h0A))
    => \A checked \in BOOLEAN :
            Cardinality({ run_cycle(processor, rnd, checked) : rnd \in RngSamples }) = 1

\* an addition of a byte has run, and would have ended in the same state
\* with any other byte ready in the generator
C17_Witness ==
    /\ CycleOk /\ LastOp \div 4096 = 7 /\ FieldKK(LastOp) = 255
    /\ \A r \in RngSamples : run_cycle(prev, r, TRUE) = Ok(processor)

----------------------------------------------------------------------------
(* Font *)

\* C18: in every reachable state the bytes of memory at 0..79 are those of
\* the font table; no opcode changes them.
C18_FontIntact ==
    \A i \in 0..79 : processor.memory[i] = FONTSET[i + 1]


----------------------------------------------------------------------------
(* Program counter *)

\* where the catalogue of instructions puts the program counter after the
\* cycle that fetched at the program counter of p: the set of one address,
\* or of two for Fx0A, which may stay
CounterAfter(p) ==
    LET at == p.program_counter
        op == opcode(p)
        top == op \div 4096
        vx == p.registers[FieldX(op)]
        vy == p.registers[FieldY(op)]
        skip(c) == IF c THEN {at + 4} ELSE {at + 2}
    IN  IF top = 1 \/ top = 2 THEN {FieldNNN(op)}
        ELSE IF top = 11 THEN {FieldNNN(op) + p.registers[0]}
        ELSE IF IsRet(op) THEN {p.stack[p.stack_pointer - 1]}
        ELSE IF top = 3 THEN skip(vx = FieldKK(op))
        ELSE IF top = 4 THEN skip(vx # FieldKK(op))
        ELSE IF top = 5 /\ op % 16 = 0 THEN skip(vx = vy)
        ELSE IF top = 9 /\ op % 16 = 0 THEN skip(vx # vy)
        ELSE IF top = 14 /\ op % 256 = \h9E THEN skip(p.keypad[vx])
        ELSE IF top = 14 /\ op % 256 = \hA1 THEN skip(~p.keypad[vx])
        ELSE IF IsF(op, \h0A) THEN {at, at + 2}
        ELSE {at + 2}

\* C23: after a successful cycle fetched at p the program counter is p + 2
\* for every opcode that is no jump, call, return, skip or Fx0A; p + 4 or
\* p + 2 for 3xkk, 4xkk, 5xy0, 9xy0, Ex9E, ExA1 as the condition holds or
\* not; nnn for 1nnn and 2nnn, nnn + V[0] for Bnnn, the popped address for
\* 00EE; and 2nnn pushes p + 2.
C23_CounterAfterCycle ==
    CycleOk =>
        /\ processor.program_counter \in CounterAfter(prev)
        /\ IsCall(LastOp) =>
            processor.stack[prev.stack_pointer] = prev.program_counter + 2


----------------------------------------------------------------------------
(* Key tests *)

IsKeyTest(op) == op \div 4096 = 14 /\ op % 256 \in {\h9E, \hA1}

\* C24: Ex9E and ExA1 return success for every value of V[x] in 0..255.
C24_KeyTestSucceeds ==
    (Cycled /\ IsKeyTest(LastOp)) => result.kind = "ok"


----------------------------------------------------------------------------
(* Decode failure *)

\* C25: a cycle that returns a decode failure leaves every field as it was
\* before the cycle but the program counter, which is 2 further; the timers
\* have not ticked.
C25_FailureFrame ==
    CycleErr =>
        processor = [prev EXCEPT !.program_counter = prev.program_counter + 2]

\* an opcode of no instruction has failed with both timers running
C25_Witness ==
    /\ CycleErr
    /\ prev.delay_timer > 0 /\ prev.sound_timer > 0
    /\ processor.delay_timer = prev.delay_timer
    /\ processor.sound_timer = prev.sound_timer
    /\ processor.program_counter = prev.program_counter + 2


----------------------------------------------------------------------------
(* Block copies *)

\* a run_cycle on the opcode at the program counter is returning Ok
OkCycleOn(low) ==
    /\ host = "poll" /\ cycles' = cycles + 1 /\ result'.kind = "ok"
    /\ OpcodeInMemory(processor) /\ IsF(opcode(processor), low)

\* C26: Fx55 stores V[i] at memory[index + i] for i in 0..x and changes no
\* other byte, no register and not the index register; Fx65 loads V[i] from
\* memory[index + i] for i in 0..x and changes no other register, no byte
\* and not the index register; Fx55 followed at once by Fx65 with the same
\* x and index leaves the registers as they were before the Fx55.
C26_BlockCopy ==
    [][ LET x == FieldX(opcode(processor))
            I == processor.index
        IN  /\ OkCycleOn(\h55) =>
                /\ \A a \in 0..(MEMORY_SIZE - 1) :
                        processor'.memory[a] =
                            (IF a \in I..(I + x) THEN processor.registers[a - I]
                             ELSE processor.memory[a])
                /\ processor'.registers = processor.registers
                /\ processor'.index = I
            /\ OkCycleOn(\h65) =>
                /\ \A i \in 0..15 :
                        processor'.registers[i] =
                            (IF i <= x THEN processor.memory[I + i]
                             ELSE processor.registers[i])
                /\ processor'.memory = processor.memory
                /\ processor'.index = I
            /\ (OkCycleOn(\h65) /\ CycleOk /\ IsF(LastOp, \h55) /\ LastX = x
                    /\ prev.index = I)
                => processor'.registers = prev.registers
      ]_vars

\* Fx65 has loaded back all sixteen registers that FF55 had stored at 0x300
C26_Witness ==
    /\ CycleOk /\ IsF(LastOp, \h65) /\ LastX = 15
    /\ prev.index = \h300
    /\ \A i \in 0..15 : prev.memory[\h300 + i] = processor.registers[i]
    /\ processor.registers[14] = \hEE /\ processor.registers[15] = \h33

====
